---- MODULE Spec2Model ----
(***************************************************************************)
(* Model of the two accessibility-audit utilities:                         *)
(*   axe-playwright  (class AccessibilityTester and its CLI entry point)   *)
(*   axe-webdriverio (runAccessibilityTest and generateHTMLReport)         *)
(*                                                                         *)
(* JavaScript values are modelled as follows.  An object is a function     *)
(* whose DOMAIN is the set of its own keys, so an absent key is a key      *)
(* that is not in the DOMAIN.  An array is a sequence.  A number that can  *)
(* be NaN is a record [nan, n].  The outcome of a call is a completion     *)
(* record [type, value, error] with type "return" or "throw".              *)
(***************************************************************************)
EXTENDS Integers, Sequences, FiniteSets, TLC

VARIABLES
    pc,          \* position of the running program
    tester,      \* the AccessibilityTester object: browser, timestamp, reportDir
    input,       \* the ScanResult handed to generateSummary / generateHTMLReport
    summary,     \* completion of the last generateSummary call
    html,        \* completion of the last HTML rendering
    clock,       \* the wall clock read by new Date()
    entry,       \* what the process runs: run, runMultipleBrowsers, ...
    queue,       \* runMultipleBrowsers: the browsers still to test
    session,     \* the local `browser` handle, and the sessions acquired / open
    found,       \* runWithAxePlaywright: const violations (of getViolations)
    dirs,        \* file system: the directories made
    files,       \* file system: path -> number of writes and last content
    report,      \* completion of the last generateJSONReport call
    outcomes,    \* runMultipleBrowsers: const results (browser -> entry)
    error,       \* the exception being thrown, "" when there is none
    stderr,      \* what console.error has printed
    exitCode,    \* exit code of the process, meaningful once pc = "exited"
    steps,       \* history: the steps the current run has completed
    failedAt     \* history: browser -> the step its run failed at, or "none"

orch == <<entry, queue, session, found, dirs, files, report, outcomes, error,
          stderr, exitCode, steps, failedAt>>

vars == <<pc, tester, input, summary, html, clock, orch>>

----------------------------------------------------------------------------
(* Bounds of the model *)

MaxPasses == 10
MaxLen == 2
MaxViolations == 2
MaxNodes == 5
MaxClock == 2

----------------------------------------------------------------------------
(* JavaScript values *)

Levels == {"critical", "serious", "moderate", "minor"}

\* impact values an entry of violations may carry: a recognised level, no
\* impact at all (undefined / null), or a string that is no level
Undefined == "undefined"
ImpactValues == Levels \cup {Undefined, "trivial"}

\* JavaScript truthiness of an impact value (a string, null or undefined)
Truthy(v) == v \notin {Undefined, "null", ""}

Num(k) == [nan |-> FALSE, n |-> k]
NaN == [nan |-> TRUE, n |-> 0]

\* x++ on a property value: undefined++ and NaN++ give NaN
Inc(x) == IF x.nan THEN NaN ELSE Num(x.n + 1)

Return(v) == [type |-> "return", value |-> <<v>>, error |-> ""]
Throw(e) == [type |-> "throw", value |-> <<>>, error |-> e]
NoCompletion == [type |-> "none", value |-> <<>>, error |-> ""]

Has(obj, key) == key \in DOMAIN obj

\* obj with obj[key] = v, the key being added when it is not an own key
SetKey(obj, key, v) ==
    [k \in DOMAIN obj \cup {key} |-> IF k = key THEN v ELSE obj[k]]

Categories == {"passes", "violations", "incomplete", "inapplicable"}

----------------------------------------------------------------------------
(* AccessibilityTester.generateSummary *)

\* summary.violationsByImpact[violation.impact]++
BumpImpact(byImpact, impact) ==
    SetKey(byImpact, impact,
           IF Has(byImpact, impact) THEN Inc(byImpact[impact]) ELSE NaN)

\* the forEach over results.violations, from entry i on
RECURSIVE CountImpacts(_, _, _)
CountImpacts(violations, i, byImpact) ==
    IF i > Len(violations) THEN byImpact
    ELSE CountImpacts(violations, i + 1,
            IF Truthy(violations[i].impact)
            THEN BumpImpact(byImpact, violations[i].impact)
            ELSE byImpact)

InitialByImpact == [l \in Levels |-> Num(0)]

TotalElementsWithoutInapplicable(results) ==
    Len(results.passes) + Len(results.violations) + Len(results.incomplete)

TotalElements(results) ==
    Len(results.passes) + Len(results.violations)
    + Len(results.incomplete) + Len(results.inapplicable)

SummaryOfThisTimestamp(this, results) ==
    [url |-> results.url,
     timestamp |-> this.timestamp,
     browser |-> this.browser,
     totalElements |-> TotalElements(results),
     passes |-> Len(results.passes),
     violations |-> Len(results.violations),
     incomplete |-> Len(results.incomplete),
     inapplicable |-> Len(results.inapplicable),
     violationsByImpact |->
         CountImpacts(results.violations, 1, InitialByImpact)]

\* the summary object of a result that has the four category arrays
SummaryOf(this, results) ==
    [url |-> results.url,
     timestamp |-> results.timestamp,
     browser |-> this.browser,
     totalElements |-> TotalElements(results),
     passes |-> Len(results.passes),
     violations |-> Len(results.violations),
     incomplete |-> Len(results.incomplete),
     inapplicable |-> Len(results.inapplicable),
     violationsByImpact |->
         CountImpacts(results.violations, 1, InitialByImpact)]

\* results with an empty array under every category key it lacks
AbsentAsEmpty(results) ==
    [k \in DOMAIN results \cup Categories |->
        IF Has(results, k) THEN results[k] ELSE <<>>]

generateSummaryAbsentAsEmpty(this, results) ==
    Return(SummaryOf(this, AbsentAsEmpty(results)))

\* results.<category>.length of an absent key throws a TypeError before
\* the summary object exists
generateSummary(this, results) ==
    IF \E c \in Categories : ~Has(results, c)
    THEN Throw("TypeError")
    ELSE Return(SummaryOf(this, results))

----------------------------------------------------------------------------
(* Scan results: the inputs of the summarizer and of the renderers *)

\* a Rule Outcome of the engine: id, impact, and the targets of its nodes
Rule(id, impact, nodes) == [id |-> id, impact |-> impact, nodes |-> nodes]

\* the sequences of n rule outcomes without impact (passes, incomplete, ...)
Outcomes(n) == [i \in 1..n |-> Rule(i, Undefined, <<>>)]

SeqsUpTo(S, n) == UNION {[1..k -> S] : k \in 0..n}

\* an object with the keys of keys only
Restrict(obj, keys) == [k \in keys |-> obj[k]]

TestUrl == "https://playwright.dev/"

\* the ScanResults with the given violations lists, every category at most
\* as long as its bound, and at most one of the four category keys absent
ScanResults(violationLists) ==
    {Restrict([url |-> TestUrl, timestamp |-> 0,
               passes |-> Outcomes(p), violations |-> v,
               incomplete |-> Outcomes(i), inapplicable |-> Outcomes(a)],
              {"url", "timestamp"} \cup present) :
        p \in 0..MaxPasses, v \in violationLists,
        i \in 0..MaxLen, a \in 0..MaxLen,
        present \in {Categories \ {c} : c \in Categories} \cup {Categories}}

\* violations lists whose entries carry any impact value and no nodes
ImpactLists ==
    {[k \in DOMAIN s |-> Rule(k, s[k], <<>>)] :
        s \in SeqsUpTo(ImpactValues, MaxViolations)}

\* violations lists whose entries carry nodes: node k has the target k
NodeLists == {[k \in 1..n |-> k] : n \in 0..MaxNodes}

RenderImpacts == {"critical", "serious", Undefined}

DetailedLists ==
    {[k \in DOMAIN s |-> Rule(k, s[k][1], s[k][2])] :
        s \in SeqsUpTo(RenderImpacts \X NodeLists, MaxViolations)}

\* the well-formed ScanResults handed to the renderers
RenderInputs ==
    {[url |-> TestUrl, timestamp |-> 0,
      passes |-> Outcomes(p), violations |-> v,
      incomplete |-> Outcomes(0), inapplicable |-> Outcomes(1)] :
        p \in 0..MaxLen, v \in DetailedLists}

\* the engines runMultipleBrowsers runs by default, in order
DefaultBrowsers == <<"chromium", "firefox", "webkit">>

Range(seq) == {seq[i] : i \in DOMAIN seq}

\* this.reportDir before init() has set it
NoDir == <<>>

\* the tester as its constructor leaves it, the clock reading now
NewTester(browser, now) ==
    [url |-> TestUrl, browser |-> browser,
     timestamp |-> <<"", now>>, reportDir |-> NoDir]

DefaultTester == NewTester("chromium", 0)

NoSession == [handle |-> Undefined, acquired |-> 0, open |-> 0]
EmptyMap == [k \in {} |-> {}]

\* the state of a process in which nothing has run yet
NothingRun ==
    /\ queue = <<>>
    /\ session = NoSession
    /\ found = <<>>
    /\ dirs = {}
    /\ files = EmptyMap
    /\ report = NoCompletion
    /\ outcomes = EmptyMap
    /\ error = ""
    /\ stderr = <<>>
    /\ exitCode = 0
    /\ steps = <<>>
    /\ failedAt = EmptyMap

----------------------------------------------------------------------------
(* The summarizer applied to every bounded ScanResult *)

SummaryInit ==
    /\ pc = "summarize"
    /\ tester = DefaultTester
    /\ input \in ScanResults(ImpactLists)
    /\ summary = NoCompletion
    /\ html = NoCompletion
    /\ clock = 0
    /\ entry = "generateSummary"
    /\ queue = Tail(DefaultBrowsers)
    /\ session = NoSession
    /\ found = <<>>
    /\ dirs = {}
    /\ files = EmptyMap
    /\ report = NoCompletion
    /\ outcomes = EmptyMap
    /\ error = ""
    /\ stderr = <<>>
    /\ exitCode = 0
    /\ steps = <<>>
    /\ failedAt = EmptyMap

\* a call of generateSummary(results); outcomes keeps, per browser
\* selected on the tester, the completion of the call made under it
CallGenerateSummary ==
    /\ pc = "summarize"
    /\ summary' = generateSummary(tester, input)
    /\ outcomes' = SetKey(outcomes, tester.browser, summary')
    /\ pc' = "summarized"
    /\ UNCHANGED <<tester, input, html, clock, entry, queue, session, found,
                   dirs, files, report, error, stderr, exitCode, steps,
                   failedAt>>

\* the tester goes on to the next engine, as the loop of
\* runMultipleBrowsers does between two runs: this.browser = browser and
\* this.timestamp = `${browser}-...`; the same results are summarized again
SelectBrowser ==
    /\ pc = "summarized"
    /\ queue # <<>>
    /\ tester' = [tester EXCEPT !.browser = Head(queue),
                                !.timestamp = <<Head(queue), clock>>]
    /\ queue' = Tail(queue)
    /\ pc' = "summarize"
    /\ UNCHANGED <<input, summary, html, clock, entry, session, found, dirs,
                   files, report, outcomes, error, stderr, exitCode, steps,
                   failedAt>>

SummaryNext == CallGenerateSummary \/ SelectBrowser

SpecSummary == SummaryInit /\ [][SummaryNext]_vars

----------------------------------------------------------------------------
(* Claims about the summarizer, checked under SpecSummary *)

Summarized == pc = "summarized"
WellShaped(results) == \A c \in Categories : Has(results, c)
TheSummary == summary.value[1]

\* the number of entries of a violations list whose impact is the level l
CountOf(violations, l) ==
    Cardinality({i \in DOMAIN violations : violations[i].impact = l})

\* C1: for every ScanResult that has the four category sequences, the
\* Summary has totalElements = |passes| + |violations| + |incomplete| +
\* |inapplicable|, and each category count is the length of its sequence.
C1_TotalIsSumOfLengths ==
    (Summarized /\ WellShaped(input)) =>
        /\ summary.type = "return"
        /\ TheSummary.passes = Len(input.passes)
        /\ TheSummary.violations = Len(input.violations)
        /\ TheSummary.incomplete = Len(input.incomplete)
        /\ TheSummary.inapplicable = Len(input.inapplicable)
        /\ TheSummary.totalElements =
              Len(input.passes) + Len(input.violations)
              + Len(input.incomplete) + Len(input.inapplicable)

C1_Witness ==
    /\ Summarized /\ WellShaped(input) /\ summary.type = "return"
    /\ Len(input.passes) = 3 /\ Len(input.violations) = 2
    /\ Len(input.incomplete) = 1 /\ Len(input.inapplicable) = 2
    /\ TheSummary.totalElements = 8

\* C2: violationsByImpact has exactly the four keys critical, serious,
\* moderate, minor, each mapped to the number of violations with that
\* impact; a violation whose impact is missing or is no level changes no
\* bucket and adds no key.
C2_FourBucketsOnly ==
    (Summarized /\ WellShaped(input)) =>
        /\ DOMAIN TheSummary.violationsByImpact = Levels
        /\ \A l \in Levels :
              TheSummary.violationsByImpact[l] = Num(CountOf(input.violations, l))

\* the scenario of C2 (10 passes, one serious violation, 2 inapplicable)
\* gives totalElements 13 and the buckets 0, 1, 0, 0
C2_Scenario ==
    (/\ Summarized /\ WellShaped(input)
     /\ Len(input.passes) = 10 /\ Len(input.incomplete) = 0
     /\ Len(input.inapplicable) = 2
     /\ Len(input.violations) = 1 /\ input.violations[1].impact = "serious") =>
        /\ TheSummary.totalElements = 13
        /\ TheSummary.violationsByImpact =
              [l \in Levels |-> IF l = "serious" THEN Num(1) ELSE Num(0)]

\* a JavaScript sum of the values of an object over the keys of keys
RECURSIVE SumValues(_, _)
SumValues(obj, keys) ==
    IF keys = {} THEN Num(0)
    ELSE LET k == CHOOSE x \in keys : TRUE
             rest == SumValues(obj, keys \ {k})
         IN  IF obj[k].nan \/ rest.nan THEN NaN ELSE Num(obj[k].n + rest.n)

ImpactSum == SumValues(TheSummary.violationsByImpact,
                       DOMAIN TheSummary.violationsByImpact)

AllRecognized(violations) ==
    \A i \in DOMAIN violations : violations[i].impact \in Levels

\* C3: the sum of the values of violationsByImpact is at most the number
\* of violations, with equality exactly when every violation has one of
\* the four recognized impacts; a violation with another impact still
\* counts in the violations total and in totalElements.
C3_ImpactSumBound ==
    (Summarized /\ WellShaped(input)) =>
        /\ ~ImpactSum.nan
        /\ ImpactSum.n <= Len(input.violations)
        /\ (ImpactSum.n = Len(input.violations)) <=> AllRecognized(input.violations)
        /\ TheSummary.violations = Len(input.violations)

\* C4: when one of the four category keys is absent the summarizer throws
\* and returns no Summary; when all four are present, empty or not, it
\* returns a Summary.
C4_AbsentCategoryThrows ==
    Summarized =>
        /\ ~WellShaped(input) =>
              summary.type = "throw" /\ summary.error = "TypeError"
              /\ summary.value = <<>>
        /\ WellShaped(input) => summary.type = "return" /\ Len(summary.value) = 1

C4_Witness ==
    /\ Summarized
    /\ ~Has(input, "incomplete")
    /\ Has(input, "violations") /\ input.violations = <<>>
    /\ summary.type = "throw"

\* C17 as stated: the Summary depends on the ScanResult only: the calls
\* made on the same ScanResult under different engines selected on the
\* tester return equal Summaries.
C17_SameSummaryAnyState ==
    \A a, b \in DOMAIN outcomes : outcomes[a] = outcomes[b]

\* a summary without its browser field
WithoutBrowser(s) == Restrict(s, DOMAIN s \ {"browser"})

\* C17, amended: generateSummary leaves the ScanResult unchanged, and the
\* Summary is a function of the ScanResult and of the engine selected on
\* the tester: calls on the same ScanResult under different engines
\* return Summaries equal in every field but browser, which is the engine
\* selected at the call; each is still the Summary of the ScanResult as it
\* is now; on a ScanResult lacking a category every call throws the same
\* TypeError.
C17_SameSummaryExceptBrowser ==
    \A a, b \in DOMAIN outcomes :
        /\ outcomes[a].type = outcomes[b].type
        /\ IF outcomes[a].type = "return"
           THEN /\ WithoutBrowser(outcomes[a].value[1]) =
                     WithoutBrowser(outcomes[b].value[1])
                /\ outcomes[a].value[1].browser = a
                /\ WithoutBrowser(outcomes[a].value[1]) =
                     WithoutBrowser(SummaryOf(tester, input))
                /\ outcomes[a].value[1].violations = Len(input.violations)
                /\ outcomes[a].value[1].passes = Len(input.passes)
           ELSE outcomes[a] = outcomes[b]

\* the same result with one violation summarized under three engines
C17_Witness ==
    /\ pc = "summarized"
    /\ DOMAIN outcomes = Range(DefaultBrowsers)
    /\ tester.browser = "webkit"
    /\ outcomes["chromium"].type = "return"
    /\ Len(input.violations) = 1
    /\ outcomes["chromium"].value[1].browser = "chromium"
    /\ outcomes["webkit"].value[1].browser = "webkit"
    /\ outcomes["webkit"].value[1].violations = 1

----------------------------------------------------------------------------
(* The HTML renderers.  A document is the sequence of its parts, each a   *)
(* record [kind, data] holding the values interpolated into that part of  *)
(* the template.  The text of a rule (help, description, helpUrl, tags)   *)
(* is determined by its id and stands with the id.                        *)

Part(kind, data) == [kind |-> kind, data |-> data]

\* new URL(url).hostname
Hostname(url) ==
    IF url = TestUrl THEN "playwright.dev" ELSE "www.deque.com"

\* new Date(t).toLocaleString()
LocaleString(t) == <<"locale", t>>

\* browser.charAt(0).toUpperCase() + browser.slice(1)
Capitalize(browser) ==
    CASE browser = "chromium" -> "Chromium"
      [] browser = "firefox" -> "Firefox"
      [] browser = "webkit" -> "Webkit"
      [] OTHER -> browser

ShownNodes == 3

Min(a, b) == IF a < b THEN a ELSE b

AffectedElementsAll(nodes) ==
    IF Len(nodes) > 0
    THEN <<Part("affected-elements", <<nodes, <<>> >>)>>
    ELSE <<>>

\* the affected-elements list of one violation block: nodes.slice(0, 3)
\* and "... and N more" when there are more than three
AffectedElements(nodes) ==
    IF Len(nodes) > 0
    THEN <<Part("affected-elements",
                <<SubSeq(nodes, 1, Min(ShownNodes, Len(nodes))),
                  IF Len(nodes) > ShownNodes
                  THEN <<Len(nodes) - ShownNodes>> ELSE <<>> >>)>>
    ELSE <<>>

\* one <div class="violation"> block
ViolationBlock(violation) ==
    Part("violation",
         <<violation.id, violation.impact, Len(violation.nodes),
           AffectedElements(violation.nodes)>>)

ShowViolationsAlways(s) == TRUE

\* summary.violations > 0
ShowViolations(s) == s.violations > 0

\* the document of AccessibilityTester.generateHTMLReport
PlaywrightDocument(this, results, s) ==
    <<Part("title", <<Hostname(this.url)>>),
      Part("header", <<Hostname(this.url), LocaleString(s.timestamp),
                       Capitalize(this.browser)>>),
      Part("stats", <<s.passes, s.violations, s.incomplete, s.inapplicable>>)>>
    \o (IF ShowViolations(s)
        THEN <<Part("impact-summary",
                    <<s.violationsByImpact.critical, s.violationsByImpact.serious,
                      s.violationsByImpact.moderate, s.violationsByImpact.minor>>)>>
             \o [i \in DOMAIN results.violations |->
                    ViolationBlock(results.violations[i])]
        ELSE <<Part("no-violations", <<>>)>>)
    \o <<Part("test-info", <<this.browser>>),
         Part("screenshot", <<"screenshot.png">>),
         Part("footer", <<>>)>>

\* generateHTMLReport up to the document it writes: the summary is
\* computed first, and a throw of generateSummary is not caught
PlaywrightHTML(this, results) ==
    LET s == generateSummary(this, results)
    IN  IF s.type = "throw" THEN s
        ELSE Return(PlaywrightDocument(this, results, s.value[1]))

\* one <tr> of violationRows
ViolationRow(v) == Part("violation-row", <<v.id, v.impact, Len(v.nodes)>>)

WdioShowViolationsAlways(results) == TRUE

\* results.violations.length > 0
WdioShowViolations(results) == Len(results.violations) > 0

\* generateHTMLReport of the WebdriverIO utility; now is the reading of
\* new Date() in the title
WebdriverioHTML(results, now) ==
    Return(
      <<Part("title", <<LocaleString(now)>>),
        Part("header", <<results.url, LocaleString(results.timestamp)>>),
        Part("stats", <<Len(results.violations), Len(results.passes),
                        Len(results.incomplete), Len(results.inapplicable)>>)>>
      \o (IF WdioShowViolations(results)
          THEN <<Part("violations-table", <<>>)>>
               \o [i \in DOMAIN results.violations |->
                      ViolationRow(results.violations[i])]
          ELSE <<Part("no-violations", <<>>)>>))

----------------------------------------------------------------------------
(* The renderers applied to every bounded well-formed ScanResult *)

RenderInit ==
    /\ pc = "render"
    /\ tester = DefaultTester
    /\ input \in RenderInputs
    /\ summary = NoCompletion
    /\ html = NoCompletion
    /\ clock \in 0..MaxClock
    /\ entry = "generateHTMLReport"
    /\ NothingRun

RenderPlaywright ==
    /\ pc = "render"
    /\ html' = PlaywrightHTML(tester, input)
    /\ pc' = "rendered-playwright"
    /\ UNCHANGED <<tester, input, summary, clock, orch>>

RenderWebdriverio ==
    /\ pc = "render"
    /\ html' = WebdriverioHTML(input, clock)
    /\ pc' = "rendered-webdriverio"
    /\ UNCHANGED <<tester, input, summary, clock, orch>>

RenderNext == RenderPlaywright \/ RenderWebdriverio

SpecRender == RenderInit /\ [][RenderNext]_vars

----------------------------------------------------------------------------
(* Claims about the renderers, checked under SpecRender *)

Rendered == pc \in {"rendered-playwright", "rendered-webdriverio"}
TheDocument == html.value[1]

\* the parts of a document of the kinds in kinds, in document order
OfKind(doc, kinds) == SelectSeq(doc, LAMBDA part : part.kind \in kinds)

DatesShown ==
    {OfKind(TheDocument, {"header"})[1].data[2]}
    \cup (IF pc = "rendered-webdriverio"
          THEN {OfKind(TheDocument, {"title"})[1].data[1]} ELSE {})

\* C14: rendering is deterministic: the document rendered now is the
\* document a rendering of the same result at any other clock reading
\* yields, and every date shown in it is the date of result.timestamp,
\* never the clock's at rendering time (both utilities).
C14_DatesFromResult ==
    (Rendered /\ html.type = "return") =>
        /\ \A d \in DatesShown : d = LocaleString(input.timestamp)
        /\ \A t \in 0..MaxClock :
             html = (IF pc = "rendered-playwright"
                     THEN PlaywrightHTML(tester, input)
                     ELSE WebdriverioHTML(input, t))

\* the violation blocks of the Playwright document, in document order
Blocks == OfKind(TheDocument, {"violation"})

\* C11: for a violation with n affected nodes the detail block shows the
\* targets of exactly the first min(n, 3) nodes, in order, and the
\* indicator "... and N more" with N = n - 3 exactly when n > 3; with
\* n = 0 the block has no node list.
C11_FirstThreeNodesAndMore ==
    (pc = "rendered-playwright" /\ html.type = "return") =>
        /\ Len(Blocks) = Len(input.violations)
        /\ \A i \in DOMAIN Blocks :
             LET nodes == input.violations[i].nodes
                 n == Len(nodes)
                 lists == Blocks[i].data[4]
             IN  IF n = 0 THEN lists = <<>>
                 ELSE /\ Len(lists) = 1
                      /\ lists[1].kind = "affected-elements"
                      /\ Len(lists[1].data[1]) = (IF n < 3 THEN n ELSE 3)
                      /\ \A k \in DOMAIN lists[1].data[1] :
                           lists[1].data[1][k] = nodes[k]
                      /\ lists[1].data[2] = (IF n > 3 THEN <<n - 3>> ELSE <<>>)

\* a violation with 5 nodes: three targets and "... and 2 more"
C11_Witness ==
    /\ pc = "rendered-playwright" /\ html.type = "return"
    /\ Len(input.violations) = 1
    /\ Len(input.violations[1].nodes) = 5
    /\ Blocks[1].data[4][1].data = << <<1, 2, 3>>, <<2>> >>

----------------------------------------------------------------------------
(* The Playwright utility: AccessibilityTester driven by its entry point  *)

MaxEngineViolations == 1

\* the violations the engine may report on the page under test
EngineViolations ==
    {[k \in 1..n |-> Rule(k, "serious", <<1>>)] : n \in 0..MaxEngineViolations}

\* the results of axe.run on the page at url, at time now
EngineResults(url, now) ==
    {[url |-> url, timestamp |-> now,
      passes |-> Outcomes(1), violations |-> v,
      incomplete |-> Outcomes(0), inapplicable |-> Outcomes(1)] :
        v \in EngineViolations}

PlaywrightEntries == {"run", "runMultipleBrowsers", "runAudit"}

ReportDirByTime(this) == <<"", this.timestamp[2]>>

\* path.join(this.outputDir, this.timestamp)
ReportDirOf(this) == this.timestamp

\* path.join(dir, name)
Path(dir, name) == <<dir, name>>

\* fs.writeFile(path, content): creates the file or overwrites it
WriteFile(fs, path, content) ==
    SetKey(fs, path,
           [writes |-> (IF Has(fs, path) THEN fs[path].writes ELSE 0) + 1,
            content |-> content])

\* JavaScript values as JSON.stringify walks them: a tag and the payload;
\* the properties of an object are <<key, value>> pairs in insertion order
JSNumber(x) == <<"number", x>>
JSString(s) == <<"string", s>>
JSArray(items) == <<"array", items>>
JSObject(props) == <<"object", props>>

\* one entry of nodes: { target: [selector] }
NodeJS(target) == JSObject(<< <<"target", JSArray(<<JSString(target)>>)>> >>)

\* one rule outcome; impact is a property only where the engine set one
RuleJS(rule) ==
    JSObject(<< <<"id", JSString(rule.id)>> >>
             \o (IF rule.impact = Undefined THEN <<>>
                 ELSE << <<"impact", JSString(rule.impact)>> >>)
             \o << <<"nodes", JSArray([k \in DOMAIN rule.nodes |->
                                         NodeJS(rule.nodes[k])])>> >>)

\* the keys of the engine's result object, in the order the engine adds them
ResultKeys ==
    <<"timestamp", "url", "inapplicable", "passes", "incomplete", "violations">>

\* the result object: { ...results, violations } keeps the keys' order
ResultsJS(results) ==
    LET keys == SelectSeq(ResultKeys, LAMBDA k : Has(results, k))
    IN  JSObject([i \in DOMAIN keys |->
            <<keys[i],
              IF keys[i] \in Categories
              THEN JSArray([k \in DOMAIN results[keys[i]] |->
                               RuleJS(results[keys[i]][k])])
              ELSE JSString(results[keys[i]])>>])

\* the keys of violationsByImpact: the four of the literal, then any key
\* the forEach added
BucketKeys == <<"critical", "serious", "moderate", "minor", "trivial">>

\* the summary object, its keys in the order of the object literal
SummaryJS(s) ==
    LET keys == SelectSeq(BucketKeys,
                          LAMBDA k : Has(s.violationsByImpact, k))
    IN  JSObject(<< <<"url", JSString(s.url)>>,
                    <<"timestamp", JSString(s.timestamp)>>,
                    <<"browser", JSString(s.browser)>>,
                    <<"totalElements", JSNumber(Num(s.totalElements))>>,
                    <<"passes", JSNumber(Num(s.passes))>>,
                    <<"violations", JSNumber(Num(s.violations))>>,
                    <<"incomplete", JSNumber(Num(s.incomplete))>>,
                    <<"inapplicable", JSNumber(Num(s.inapplicable))>>,
                    <<"violationsByImpact",
                      JSObject([i \in DOMAIN keys |->
                          <<keys[i],
                            JSNumber(s.violationsByImpact[keys[i]])>>])>> >>)

\* the report object { summary, results }
ReportJS(rep) ==
    JSObject(<< <<"summary", SummaryJS(rep.summary)>>,
                <<"results", ResultsJS(rep.results)>> >>)

RECURSIVE JSONStringifyKeepsNaN(_)
RECURSIVE JSONStringify(_)
RECURSIVE WellFormed(_)
RECURSIVE Decode(_)

JSONStringifyKeepsNaN(value) ==
    CASE value[1] = "number" ->
           IF value[2].nan THEN <<"token", "NaN">>
           ELSE <<"lit-number", value[2].n>>
      [] value[1] = "string" -> <<"lit-string", value[2]>>
      [] value[1] = "array" ->
           <<"lit-array", [i \in DOMAIN value[2] |->
                              JSONStringifyKeepsNaN(value[2][i])]>>
      [] value[1] = "object" ->
           <<"lit-object", [i \in DOMAIN value[2] |->
                               <<value[2][i][1],
                                 JSONStringifyKeepsNaN(value[2][i][2])>>]>>
      [] OTHER -> <<"lit-null">>

\* JSON.stringify(value, null, 2): the document as the tree of its
\* literals; NaN is written as null, members keep the properties' order
JSONStringify(value) ==
    CASE value[1] = "number" ->
           IF value[2].nan THEN <<"lit-null">>
           ELSE <<"lit-number", value[2].n>>
      [] value[1] = "string" -> <<"lit-string", value[2]>>
      [] value[1] = "array" ->
           <<"lit-array", [i \in DOMAIN value[2] |->
                              JSONStringify(value[2][i])]>>
      [] value[1] = "object" ->
           <<"lit-object", [i \in DOMAIN value[2] |->
                               <<value[2][i][1],
                                 JSONStringify(value[2][i][2])>>]>>
      [] OTHER -> <<"lit-null">>

\* whether text is a JSON document: every literal is one of the grammar
WellFormed(text) ==
    CASE text[1] \in {"lit-null", "lit-number", "lit-string"} -> TRUE
      [] text[1] = "lit-array" ->
           \A i \in DOMAIN text[2] : WellFormed(text[2][i])
      [] text[1] = "lit-object" ->
           \A i \in DOMAIN text[2] : WellFormed(text[2][i][2])
      [] OTHER -> FALSE

\* the value a well-formed document denotes
Decode(text) ==
    CASE text[1] = "lit-number" -> JSNumber(Num(text[2]))
      [] text[1] = "lit-string" -> JSString(text[2])
      [] text[1] = "lit-array" ->
           JSArray([i \in DOMAIN text[2] |-> Decode(text[2][i])])
      [] text[1] = "lit-object" ->
           JSObject([i \in DOMAIN text[2] |->
                        <<text[2][i][1], Decode(text[2][i][2])>>])
      [] OTHER -> <<"null">>

\* JSON.parse(text): the value, or a SyntaxError
JSONParse(text) ==
    IF WellFormed(text) THEN Return(Decode(text)) ELSE Throw("SyntaxError")

\* the member named key of an object literal
Member(text, key) ==
    text[2][CHOOSE i \in DOMAIN text[2] : text[2][i][1] = key][2]

\* the members' names of an object literal, in document order
MemberNames(text) == [i \in DOMAIN text[2] |-> text[2][i][1]]

MakeReportWithoutPasses(s, results) ==
    [summary |-> s, results |-> [results EXCEPT !.passes = <<>>]]

\* const report = { summary: this.generateSummary(results), results: results }
MakeReport(s, results) == [summary |-> s, results |-> results]

\* browser.close() / browser.deleteSession(): ends the session of an open
\* handle, and does nothing on a handle already closed
CloseSession(s) ==
    IF s.handle = "open"
    THEN [s EXCEPT !.handle = "closed", !.open = s.open - 1]
    ELSE s

CatchLeavesOpen(s) == s

\* if (browser) await browser.close()
CloseIfLaunched(s) ==
    IF s.handle = Undefined THEN s ELSE CloseSession(s)

\* where a rejection of init / runWithAxePlaywright / generate*Report lands
CallerCatch ==
    CASE entry \in {"run", "runTwice"} -> "catch-run"
      [] entry = "runMultipleBrowsers" -> "catch-loop"
      [] OTHER -> "thrown"

\* the awaited call of the step named step rejects: control enters handler
Throws(step, handler) ==
    /\ error' = step
    /\ failedAt' = SetKey(failedAt, tester.browser, step)
    /\ pc' = handler

NoThrow == UNCHANGED <<error, failedAt>>

\* the entry point after construction: all browsers, or the single run
Main ==
    /\ pc = "main"
    /\ entry \in PlaywrightEntries
    /\ IF entry = "runMultipleBrowsers"
       THEN /\ pc' = "loop"
            /\ queue' = DefaultBrowsers
            /\ UNCHANGED failedAt
       ELSE /\ pc' = "init"
            /\ failedAt' = SetKey(failedAt, tester.browser, "none")
            /\ UNCHANGED queue
    /\ UNCHANGED <<tester, input, summary, html, clock, entry, session, found,
                   dirs, files, report, outcomes, error, stderr, exitCode,
                   steps>>

\* head of the for loop of runMultipleBrowsers: this.browser = browser and
\* this.timestamp = `${browser}-${new Date()...}`
NextBrowser ==
    /\ pc = "loop"
    /\ queue # <<>>
    /\ \E now \in clock..MaxClock :
         /\ clock' = now
         /\ tester' = [tester EXCEPT !.browser = Head(queue),
                                     !.timestamp = <<Head(queue), now>>]
    /\ queue' = Tail(queue)
    /\ steps' = <<>>
    /\ failedAt' = SetKey(failedAt, Head(queue), "none")
    /\ pc' = "init"
    /\ UNCHANGED <<input, summary, html, entry, session, found, dirs, files,
                   report, outcomes, error, stderr, exitCode>>

\* AccessibilityTester.init: mkdir, then this.reportDir = reportDir
init ==
    /\ pc = "init"
    /\ \/ /\ dirs' = dirs \cup {ReportDirOf(tester)}
          /\ tester' = [tester EXCEPT !.reportDir = ReportDirOf(tester)]
          /\ pc' = "launch"
          /\ NoThrow
       \/ /\ Throws("mkdir", CallerCatch)
          /\ UNCHANGED <<dirs, tester>>
    /\ UNCHANGED <<input, summary, html, clock, entry, queue, session, found,
                   files, report, outcomes, stderr, exitCode, steps>>

\* let browser; browser = await this.launchBrowser()
launchBrowser ==
    /\ pc = "launch"
    /\ \/ /\ session' = [handle |-> "open",
                         acquired |-> session.acquired + 1,
                         open |-> session.open + 1]
          /\ pc' = "newContext"
          /\ NoThrow
       \/ /\ session' = [session EXCEPT !.handle = Undefined]
          /\ Throws("launch", "catch-audit")
    /\ UNCHANGED <<tester, input, summary, html, clock, entry, queue, found,
                   dirs, files, report, outcomes, stderr, exitCode, steps>>

\* an awaited call on the browser or the page that touches no other state
PageStep(at, next, done) ==
    /\ pc = at
    /\ \/ /\ pc' = next
          /\ steps' = steps \o done
          /\ NoThrow
       \/ /\ Throws(at, "catch-audit")
          /\ UNCHANGED steps
    /\ UNCHANGED <<tester, input, summary, html, clock, entry, queue, session,
                   found, dirs, files, report, outcomes, stderr, exitCode>>

newContext == PageStep("newContext", "newPage", <<>>)

newPage == PageStep("newPage", "goto", <<>>)

gotoThenInject == PageStep("goto", "injectAxe", <<"navigate">>)

\* await page.goto(this.url, ...), followed by the screenshot
goto == PageStep("goto", "screenshot", <<"navigate">>)

\* page.screenshot({path: path.join(this.reportDir, 'screenshot.png')})
screenshot ==
    /\ pc = "screenshot"
    /\ \/ /\ tester.reportDir # NoDir
          /\ files' = WriteFile(files, Path(tester.reportDir, "screenshot.png"),
                                "png")
          /\ steps' = Append(steps, "screenshot")
          /\ pc' = "injectAxe"
          /\ NoThrow
       \/ /\ Throws("screenshot", "catch-audit")
          /\ UNCHANGED <<files, steps>>
    /\ UNCHANGED <<tester, input, summary, html, clock, entry, queue, session,
                   found, dirs, report, outcomes, stderr, exitCode>>

\* injectAxe(page); in runAudit the script element added by page.evaluate
injectAxe ==
    PageStep("injectAxe",
             IF entry = "runAudit" THEN "evaluate" ELSE "getViolations",
             <<"inject">>)

\* const violations = await getViolations(page, null, this.axeOptions)
getViolations ==
    /\ pc = "getViolations"
    /\ \/ /\ \E v \in EngineViolations : found' = v
          /\ steps' = Append(steps, "evaluate")
          /\ pc' = "evaluate"
          /\ NoThrow
       \/ /\ Throws("getViolations", "catch-audit")
          /\ UNCHANGED <<found, steps>>
    /\ UNCHANGED <<tester, input, summary, html, clock, entry, queue, session,
                   dirs, files, report, outcomes, stderr, exitCode>>

\* const results = await page.evaluate(... window.axe.run(document, options))
evaluate ==
    /\ pc = "evaluate"
    /\ \/ /\ \E r \in EngineResults(tester.url, clock) : input' = r
          /\ steps' = Append(steps, "evaluate")
          /\ pc' = "close"
          /\ NoThrow
       \/ /\ Throws("axe.run", "catch-audit")
          /\ UNCHANGED <<input, steps>>
    /\ UNCHANGED <<tester, summary, html, clock, entry, queue, session, found,
                   dirs, files, report, outcomes, stderr, exitCode>>

\* await browser.close(); return { ...results, violations }
\* (runAudit returns results)
closeAndReturn ==
    /\ pc = "close"
    /\ session' = CloseSession(session)
    /\ input' = IF entry = "runAudit" THEN input
                ELSE [input EXCEPT !.violations = found]
    /\ pc' = IF entry = "runAudit" THEN "returned" ELSE "json"
    /\ UNCHANGED <<tester, summary, html, clock, entry, queue, found, dirs,
                   files, report, outcomes, error, stderr, exitCode, steps,
                   failedAt>>

\* catch (error) { if (browser) await browser.close(); throw error; }
catchAudit ==
    /\ pc = "catch-audit"
    /\ session' = CloseIfLaunched(session)
    /\ pc' = CallerCatch
    /\ UNCHANGED <<tester, input, summary, html, clock, entry, queue, found,
                   dirs, files, report, outcomes, error, stderr, exitCode,
                   steps, failedAt>>

\* AccessibilityTester.generateJSONReport
generateJSONReport ==
    /\ pc = "json"
    /\ LET s == generateSummary(tester, input)
           made == MakeReport(s.value[1], input)
       IN  /\ summary' = s
           /\ IF s.type = "throw"
              THEN /\ Throws(s.error, CallerCatch)
                   /\ UNCHANGED <<files, report, steps>>
              ELSE \/ /\ files' = WriteFile(files,
                                     Path(tester.reportDir, "report.json"),
                                     JSONStringify(ReportJS(made)))
                      /\ report' = Return(made)
                      /\ steps' = steps \o <<"summarize", "render-json",
                                             "persist-json">>
                      /\ pc' = "html"
                      /\ NoThrow
                   \/ /\ Throws("writeFile report.json", CallerCatch)
                      /\ steps' = steps \o <<"summarize", "render-json">>
                      /\ UNCHANGED <<files, report>>
    /\ UNCHANGED <<tester, input, html, clock, entry, queue, session, found,
                   dirs, outcomes, stderr, exitCode>>

\* AccessibilityTester.generateHTMLReport
generateHTMLReport ==
    /\ pc = "html"
    /\ LET s == generateSummary(tester, input)
           doc == PlaywrightHTML(tester, input)
       IN  /\ summary' = s
           /\ html' = doc
           /\ IF doc.type = "throw"
              THEN /\ Throws(doc.error, CallerCatch)
                   /\ UNCHANGED <<files, steps>>
              ELSE \/ /\ files' = WriteFile(files,
                                     Path(tester.reportDir, "report.html"),
                                     doc.value[1])
                      /\ steps' = steps \o <<"summarize", "render-html",
                                             "persist-html">>
                      /\ pc' = "print"
                      /\ NoThrow
                   \/ /\ Throws("writeFile report.html", CallerCatch)
                      /\ steps' = steps \o <<"summarize", "render-html">>
                      /\ UNCHANGED files
    /\ UNCHANGED <<tester, input, clock, entry, queue, session, found, dirs,
                   report, outcomes, stderr, exitCode>>

SuccessEntry(rep, this) ==
    [success |-> TRUE, summary |-> rep.summary, reportDir |-> this.reportDir]

FailureAsSuccess(message) == [success |-> TRUE, error |-> message]

FailureEntry(message) == [success |-> FALSE, error |-> message]

\* runMultipleBrowsers: printConsoleSummary and results[browser] = success
recordSuccess ==
    /\ pc = "print"
    /\ entry = "runMultipleBrowsers"
    /\ outcomes' = SetKey(outcomes, tester.browser,
                          SuccessEntry(report.value[1], tester))
    /\ pc' = "loop"
    /\ UNCHANGED <<tester, input, summary, html, clock, entry, queue, session,
                   found, dirs, files, report, error, stderr, exitCode, steps,
                   failedAt>>

\* runMultipleBrowsers: catch (error) { console.error; results[browser] = failure }
catchLoop ==
    /\ pc = "catch-loop"
    /\ stderr' = Append(stderr, <<"Failed to test with", tester.browser, error>>)
    /\ outcomes' = SetKey(outcomes, tester.browser, FailureEntry(error))
    /\ error' = ""
    /\ pc' = "loop"
    /\ UNCHANGED <<tester, input, summary, html, clock, entry, queue, session,
                   found, dirs, files, report, exitCode, steps, failedAt>>

\* runMultipleBrowsers returns; main prints the table and the process ends
multiDone ==
    /\ pc = "loop"
    /\ queue = <<>>
    /\ pc' = "exited"
    /\ UNCHANGED <<tester, input, summary, html, clock, orch>>

\* run: printConsoleSummary, return report; main has nothing left to do
runReturns ==
    /\ pc = "print"
    /\ entry = "run"
    /\ pc' = "exited"
    /\ UNCHANGED <<tester, input, summary, html, clock, orch>>

catchRunWraps ==
    /\ pc = "catch-run"
    /\ stderr' = Append(stderr, <<"Audit failed:", tester.browser, error>>)
    /\ error' = "Audit failed"
    /\ pc' = IF entry = "run" THEN "main-catch" ELSE "thrown"
    /\ UNCHANGED <<tester, input, summary, html, clock, entry, queue, session,
                   found, dirs, files, report, outcomes, exitCode, steps,
                   failedAt>>

\* run: catch (error) { console.error("Audit failed:", ...); throw error; }
catchRun ==
    /\ pc = "catch-run"
    /\ stderr' = Append(stderr, <<"Audit failed:", tester.browser, error>>)
    /\ pc' = IF entry = "run" THEN "main-catch" ELSE "thrown"
    /\ UNCHANGED <<tester, input, summary, html, clock, entry, queue, session,
                   found, dirs, files, report, outcomes, error, exitCode,
                   steps, failedAt>>

\* .catch(error => { console.error(error); process.exit(1); })
mainCatch ==
    /\ pc = "main-catch"
    /\ stderr' = Append(stderr, <<"", tester.browser, error>>)
    /\ exitCode' = 1
    /\ pc' = "exited"
    /\ UNCHANGED <<tester, input, summary, html, clock, entry, queue, session,
                   found, dirs, files, report, outcomes, error, steps,
                   failedAt>>

PlaywrightNext ==
    \/ Main \/ NextBrowser \/ init \/ launchBrowser \/ newContext \/ newPage
    \/ goto \/ screenshot \/ injectAxe \/ getViolations \/ evaluate
    \/ closeAndReturn \/ catchAudit \/ generateJSONReport
    \/ generateHTMLReport \/ recordSuccess \/ catchLoop \/ multiDone
    \/ runReturns \/ catchRun \/ mainCatch

----------------------------------------------------------------------------
(* The WebdriverIO utility: runAccessibilityTest and the top-level call.   *)
(* Its const timestamp and reportDir are kept in the fields of the same    *)
(* name of the variable tester.                                            *)

WdioTestUrl == "https://www.deque.com/axe/core-documentation/"

WdioBrowser == "chrome"

WdioThrows(step) ==
    /\ error' = step
    /\ failedAt' = SetKey(failedAt, WdioBrowser, step)
    /\ pc' = "wdio-catch"

\* browser = await remote({...})
remote ==
    /\ pc = "main"
    /\ entry = "webdriverio"
    /\ \/ /\ session' = [handle |-> "open",
                         acquired |-> session.acquired + 1,
                         open |-> session.open + 1]
          /\ failedAt' = SetKey(failedAt, WdioBrowser, "none")
          /\ pc' = "wdio-url"
          /\ UNCHANGED error
       \/ /\ WdioThrows("remote")
          /\ UNCHANGED session
    /\ UNCHANGED <<tester, input, summary, html, clock, entry, queue, found,
                   dirs, files, report, outcomes, stderr, exitCode, steps>>

\* await browser.url(testUrl)
browserUrl ==
    /\ pc = "wdio-url"
    /\ \/ /\ steps' = Append(steps, "navigate")
          /\ pc' = "wdio-analyze"
          /\ NoThrow
       \/ /\ WdioThrows("navigation")
          /\ UNCHANGED steps
    /\ UNCHANGED <<tester, input, summary, html, clock, entry, queue, session,
                   found, dirs, files, report, outcomes, stderr, exitCode>>

\* const results = await axeBuilder.withTags([...]).analyze()
analyze ==
    /\ pc = "wdio-analyze"
    /\ \/ /\ \E r \in EngineResults(WdioTestUrl, clock) : input' = r
          /\ steps' = steps \o <<"inject", "evaluate">>
          /\ pc' = "wdio-mkdir"
          /\ NoThrow
       \/ /\ WdioThrows("analyze")
          /\ UNCHANGED <<input, steps>>
    /\ UNCHANGED <<tester, summary, html, clock, entry, queue, session, found,
                   dirs, files, report, outcomes, stderr, exitCode>>

\* the console summary, then fs.mkdir(reportDir, { recursive: true })
mkdirReports ==
    /\ pc = "wdio-mkdir"
    /\ \/ /\ dirs' = dirs \cup {<<"reports">>}
          /\ tester' = [tester EXCEPT !.reportDir = <<"reports">>]
          /\ pc' = "wdio-json"
          /\ NoThrow
       \/ /\ WdioThrows("mkdir")
          /\ UNCHANGED <<dirs, tester>>
    /\ UNCHANGED <<input, summary, html, clock, entry, queue, session, found,
                   files, report, outcomes, stderr, exitCode, steps>>

\* const timestamp = new Date()...; fs.writeFile(reportPath, JSON.stringify(results))
writeJsonReport ==
    /\ pc = "wdio-json"
    /\ \E now \in clock..MaxClock :
         /\ clock' = now
         /\ tester' = [tester EXCEPT !.timestamp = <<"accessibility-report", now>>]
         /\ \/ /\ files' = WriteFile(files,
                              Path(tester.reportDir,
                                   <<"accessibility-report", now, "json">>),
                              JSONStringify(ResultsJS(input)))
               /\ steps' = steps \o <<"render-json", "persist-json">>
               /\ pc' = "wdio-html"
               /\ NoThrow
            \/ /\ WdioThrows("writeFile json")
               /\ steps' = Append(steps, "render-json")
               /\ UNCHANGED files
    /\ UNCHANGED <<input, summary, html, entry, queue, session, found, dirs,
                   report, outcomes, stderr, exitCode>>

\* const htmlReport = generateHTMLReport(results); fs.writeFile(htmlReportPath, ...)
writeHtmlReport ==
    /\ pc = "wdio-html"
    /\ \E now \in clock..MaxClock :
         /\ clock' = now
         /\ html' = WebdriverioHTML(input, now)
         /\ \/ /\ files' = WriteFile(files,
                              Path(tester.reportDir,
                                   <<"accessibility-report",
                                     tester.timestamp[2], "html">>),
                              WebdriverioHTML(input, now).value[1])
               /\ steps' = steps \o <<"render-html", "persist-html">>
               /\ pc' = "wdio-finally"
               /\ NoThrow
            \/ /\ WdioThrows("writeFile html")
               /\ steps' = Append(steps, "render-html")
               /\ UNCHANGED files
    /\ UNCHANGED <<tester, input, summary, entry, queue, session, found, dirs,
                   report, outcomes, stderr, exitCode>>

\* catch (error) { console.error('Error running accessibility tests:', error); throw error; }
wdioCatch ==
    /\ pc = "wdio-catch"
    /\ stderr' = Append(stderr,
                        <<"Error running accessibility tests:", WdioBrowser, error>>)
    /\ pc' = "wdio-finally"
    /\ UNCHANGED <<tester, input, summary, html, clock, entry, queue, session,
                   found, dirs, files, report, outcomes, error, exitCode,
                   steps, failedAt>>

\* finally { if (browser) await browser.deleteSession(); }, after which the
\* promise of runAccessibilityTest settles
wdioFinally ==
    /\ pc = "wdio-finally"
    /\ session' = CloseIfLaunched(session)
    /\ pc' = IF error = "" THEN "exited" ELSE "wdio-rejected"
    /\ UNCHANGED <<tester, input, summary, html, clock, entry, queue, found,
                   dirs, files, report, outcomes, error, stderr, exitCode,
                   steps, failedAt>>

\* runAccessibilityTest().catch(console.error): the rejection is printed and
\* handled, and the process ends with the exit code it had
topLevelCatch ==
    /\ pc = "wdio-rejected"
    /\ stderr' = Append(stderr, <<"", WdioBrowser, error>>)
    /\ pc' = "exited"
    /\ UNCHANGED <<tester, input, summary, html, clock, entry, queue, session,
                   found, dirs, files, report, outcomes, error, exitCode,
                   steps, failedAt>>

WebdriverioNext ==
    \/ remote \/ browserUrl \/ analyze \/ mkdirReports \/ writeJsonReport
    \/ writeHtmlReport \/ wdioCatch \/ wdioFinally \/ topLevelCatch

----------------------------------------------------------------------------
(* The two processes *)

Entries == PlaywrightEntries \cup {"webdriverio"}

\* the state once main has parsed the options and constructed the tester,
\* whose constructor reads the clock
Init ==
    /\ pc = "main"
    /\ entry \in Entries
    /\ \E now \in 0..MaxClock :
         /\ clock = now
         /\ tester = NewTester("chromium", now)
    /\ input = EmptyMap
    /\ summary = NoCompletion
    /\ html = NoCompletion
    /\ NothingRun

Next == PlaywrightNext \/ WebdriverioNext

Spec == Init /\ [][Next]_vars

----------------------------------------------------------------------------
(* Claims about the two processes, checked under Spec *)

\* the browsers whose run has failed so far
FailedRuns == {b \in DOMAIN failedAt : failedAt[b] # "none"}

\* the content of report.json in the directory dir
JsonReportIn(dir) == files[Path(dir, "report.json")].content

\* C5: in runMultipleBrowsers a failure of any step of one browser's run
\* does not abort the loop.  Every recorded entry is success=false with the
\* error message exactly when that browser's run failed, and success=true
\* with the summary of its report otherwise, whatever happens in later
\* runs; when the loop is over every browser of the list has been run and
\* has exactly one entry.
C5_FailuresAreIsolated ==
    entry = "runMultipleBrowsers" =>
        /\ \A b \in DOMAIN outcomes :
             /\ b \in DOMAIN failedAt
             /\ outcomes[b].success = (failedAt[b] = "none")
             /\ IF outcomes[b].success
                THEN /\ DOMAIN outcomes[b] = {"success", "summary", "reportDir"}
                     /\ outcomes[b].summary.browser = b
                     /\ JSONStringify(SummaryJS(outcomes[b].summary)) =
                          Member(JsonReportIn(outcomes[b].reportDir), "summary")
                ELSE /\ DOMAIN outcomes[b] = {"success", "error"}
                     /\ outcomes[b].error = failedAt[b]
        /\ pc = "exited" =>
             /\ DOMAIN failedAt = Range(DefaultBrowsers)
             /\ DOMAIN outcomes = Range(DefaultBrowsers)

\* three browsers, the second failing to navigate: two successes, one failure
C5_Witness ==
    /\ entry = "runMultipleBrowsers" /\ pc = "exited"
    /\ failedAt["firefox"] = "goto"
    /\ outcomes["firefox"] = [success |-> FALSE, error |-> "goto"]
    /\ {b \in DOMAIN outcomes : outcomes[b].success} = {"chromium", "webkit"}

\* the run function (runAudit, runWithAxePlaywright, runAccessibilityTest)
\* is executing: it has been entered and has neither returned nor thrown
InRun ==
    pc \in {"launch", "newContext", "newPage", "goto", "screenshot",
            "injectAxe", "getViolations", "evaluate", "close", "catch-audit",
            "wdio-url", "wdio-analyze", "wdio-mkdir", "wdio-json", "wdio-html",
            "wdio-catch", "wdio-finally"}

\* C6: a scan run acquires at most one browser session, and a session that
\* was acquired is closed by the time the run returns or throws, whichever
\* step failed: outside a run no session is open.
C6_SessionReleased ==
    /\ session.open <= 1
    /\ session.acquired <= Cardinality(DOMAIN failedAt)
    /\ ~InRun => session.open = 0

C6_Witness ==
    /\ pc = "catch-run"
    /\ error = "goto"
    /\ session.acquired = 1
    /\ session.handle = "closed"
    /\ session.open = 0

\* the stage of a step in the pipeline navigate, screenshot, inject,
\* evaluate, summarize, render, persist
Stage(step) ==
    CASE step = "navigate" -> 1
      [] step = "screenshot" -> 2
      [] step = "inject" -> 3
      [] step = "evaluate" -> 4
      [] step = "summarize" -> 5
      [] step \in {"render-json", "render-html"} -> 6
      [] step \in {"persist-json", "persist-html"} -> 7

RunsPipeline == entry \in {"run", "runMultipleBrowsers"}

\* C7 as stated: the steps of a run go through the stages navigate,
\* screenshot, inject, evaluate, summarize, render, persist in this order,
\* so nothing is persisted before rendering has completed.
C7_SinglePass ==
    RunsPipeline =>
        \A i, j \in DOMAIN steps : i < j => Stage(steps[i]) <= Stage(steps[j])

\* the steps of a run of the Playwright utility that fails nowhere
FullPipeline ==
    <<"navigate", "screenshot", "inject", "evaluate", "evaluate",
      "summarize", "render-json", "persist-json",
      "summarize", "render-html", "persist-html">>

IsPrefix(s, t) == Len(s) <= Len(t) /\ s = SubSeq(t, 1, Len(s))

\* the file name is in the directory that the timestamp of this run names
Written(name) == Has(files, Path(ReportDirOf(tester), name))

\* C7 as amended: the steps of a run are, in this order, navigate,
\* screenshot, inject, evaluate (getViolations, then axe.run), then
\* summarize, render, persist for report.json, then summarize, render,
\* persist for report.html; the screenshot is on disk before evaluation
\* starts, and a report file is on disk only once its own rendering is done.
C7_PipelineOrder ==
    RunsPipeline =>
        /\ IsPrefix(steps, FullPipeline)
        /\ Written("screenshot.png") <=> "screenshot" \in Range(steps)
        /\ Written("report.json") <=> "persist-json" \in Range(steps)
        /\ Written("report.html") <=> "persist-html" \in Range(steps)

C7_Witness ==
    /\ entry = "run" /\ pc = "exited"
    /\ steps = FullPipeline
    /\ Written("screenshot.png") /\ Written("report.json") /\ Written("report.html")

\* C8: for each of the two command-line utilities, when the single run
\* fails, a diagnostic is printed and the process ends with a non-zero
\* exit code.
C8_FailureExitsNonZero ==
    (pc = "exited" /\ entry \in {"run", "webdriverio"} /\ FailedRuns # {}) =>
        /\ stderr # <<>>
        /\ exitCode # 0

\* C9: a run of the Playwright CLI that completes with at least one
\* violation ends with a non-zero exit code.
C9_ViolationsExitNonZero ==
    (pc = "exited" /\ entry = "run" /\ FailedRuns = {}
       /\ report.type = "return") =>
        (Len(report.value[1].results.violations) >= 1 => exitCode # 0)


\* the failures of navigation and of loading or evaluating the engine
EngineFailures == {"goto", "injectAxe", "getViolations", "axe.run"}

\* the first component of the directory names of browser b's runs
DirPrefix(b) == IF entry = "runMultipleBrowsers" THEN b ELSE ""

\* C16: a failure of navigation or of loading / evaluating the engine is
\* not recovered or retried.  The run goes to its handlers only: the page
\* is navigated at most once, no summary is computed and neither
\* report.json nor report.html is written for that run; the run is marked
\* failed (a success=false entry with the error, or exit code 1); and in
\* single-engine mode the error run() throws is the error that was raised.
C16_FailureNotRecovered ==
    RunsPipeline =>
      \A b \in DOMAIN failedAt :
        failedAt[b] \in EngineFailures =>
          /\ \A path \in DOMAIN files :
               path[1][1] = DirPrefix(b) => path[2] = "screenshot.png"
          /\ b = tester.browser =>
               /\ pc \in {"catch-audit", "catch-run", "catch-loop",
                          "main-catch", "loop", "exited"}
               /\ "summarize" \notin Range(steps)
               /\ Cardinality({i \in DOMAIN steps : steps[i] = "navigate"}) <= 1
          /\ entry = "runMultipleBrowsers" =>
               /\ (b # tester.browser \/ pc \in {"loop", "exited"}) =>
                    b \in DOMAIN outcomes
               /\ b \in DOMAIN outcomes =>
                    outcomes[b] = [success |-> FALSE, error |-> failedAt[b]]
          /\ entry = "run" =>
               /\ summary = NoCompletion
               /\ report = NoCompletion
               /\ html = NoCompletion
               /\ pc \in {"catch-run", "main-catch", "exited"} =>
                    error = failedAt[b]
               /\ pc = "exited" =>
                    /\ exitCode = 1
                    /\ stderr[Len(stderr)] = <<"", b, failedAt[b]>>

\* run(): axe.run rejects after the screenshot was taken; the process ends
\* with that error and no report
C16_Witness ==
    /\ entry = "run" /\ pc = "exited"
    /\ failedAt["chromium"] = "axe.run"
    /\ error = "axe.run"
    /\ exitCode = 1
    /\ DOMAIN files = {Path(tester.reportDir, "screenshot.png")}
    /\ session.open = 0

ReportFiles == {"screenshot.png", "report.json", "report.html"}

\* the engine named in a written file: summary.browser of report.json, the
\* test information of report.html
BrowserIn(path) ==
    IF path[2] = "report.json"
    THEN Member(Member(files[path].content, "summary"), "browser")[2]
    ELSE OfKind(files[path].content, {"test-info"})[1].data[1]

\* C18: in runMultipleBrowsers, for every engine e recorded with
\* success=true: summary.browser is e; reportDir is the directory init
\* created for e's run, whose name starts with e; screenshot.png,
\* report.json and report.html of e's run are in it, each written once,
\* the reports naming e; and no file of another engine's run is in a
\* directory of e, whatever step (init included) failed in other runs.
C18_OwnDirectory ==
    entry = "runMultipleBrowsers" =>
        /\ \A e \in DOMAIN outcomes :
             outcomes[e].success =>
               LET dir == outcomes[e].reportDir
               IN  /\ outcomes[e].summary.browser = e
                   /\ dir \in dirs
                   /\ dir[1] = e
                   /\ \A name \in ReportFiles :
                        /\ Has(files, Path(dir, name))
                        /\ files[Path(dir, name)].writes = 1
                   /\ \A path \in DOMAIN files :
                        path[1][1] = e => path[1] = dir
        /\ \A path \in DOMAIN files :
             /\ path[1] \in dirs
             /\ path[2] \in ReportFiles
             /\ path[1][1] \in DOMAIN failedAt
             /\ files[path].writes = 1
             /\ path[2] # "screenshot.png" => BrowserIn(path) = path[1][1]

\* chromium and webkit succeed around a firefox run that fails in init
C18_Witness ==
    /\ entry = "runMultipleBrowsers" /\ pc = "exited"
    /\ failedAt["firefox"] = "mkdir"
    /\ outcomes["chromium"].success /\ outcomes["webkit"].success
    /\ ~outcomes["firefox"].success
    /\ outcomes["webkit"].reportDir[1] = "webkit"
    /\ Cardinality(DOMAIN files) = 6

----------------------------------------------------------------------------
(* generateJSONReport applied to every bounded ScanResult *)

\* a tester whose init() has created its report directory
ReportInit ==
    /\ pc = "json"
    /\ tester = [DefaultTester EXCEPT !.reportDir = ReportDirOf(DefaultTester)]
    /\ input \in ScanResults(ImpactLists)
    /\ summary = NoCompletion
    /\ html = NoCompletion
    /\ clock = 0
    /\ entry = "generateJSONReport"
    /\ queue = <<>>
    /\ session = NoSession
    /\ found = <<>>
    /\ dirs = {ReportDirOf(DefaultTester)}
    /\ files = EmptyMap
    /\ report = NoCompletion
    /\ outcomes = EmptyMap
    /\ error = ""
    /\ stderr = <<>>
    /\ exitCode = 0
    /\ steps = <<>>
    /\ failedAt = EmptyMap

ReportNext == generateJSONReport

SpecReport == ReportInit /\ [][ReportNext]_vars

\* generateJSONReport has returned its report
Reported == entry = "generateJSONReport" /\ pc = "html"

\* report.json as written by the call
ReportFile == files[Path(tester.reportDir, "report.json")].content

\* C12: the JSON report is exactly the pair {summary, results}: results is
\* the scan result given, unchanged, and summary is the Summary of that
\* same result; the document written to report.json is the serialization
\* of the very object returned (its two members are the summary's and the
\* result's documents, in that order), and decoding it gives back the
\* returned pair whenever no bucket holds NaN.
C12_ReportIsSummaryAndResults ==
    Reported =>
        /\ report.type = "return"
        /\ LET made == report.value[1]
           IN  /\ DOMAIN made = {"summary", "results"}
               /\ made.results = input
               /\ Return(made.summary) = generateSummary(tester, input)
               /\ Has(files, Path(tester.reportDir, "report.json"))
               /\ ReportFile[1] = "lit-object"
               /\ MemberNames(ReportFile) = <<"summary", "results">>
               /\ Member(ReportFile, "summary") =
                    JSONStringify(SummaryJS(made.summary))
               /\ Member(ReportFile, "results") =
                    JSONStringify(ResultsJS(input))
               /\ AllRecognized(input.violations) =>
                    JSONParse(ReportFile) = Return(ReportJS(made))

\* a result with two violations reported and written
C12_Witness ==
    /\ Reported
    /\ Len(input.violations) = 2
    /\ report.type = "return"
    /\ report.value[1].summary.violations = 2
    /\ Len(report.value[1].results.passes) = MaxPasses
    /\ Has(files, Path(tester.reportDir, "report.json"))

----------------------------------------------------------------------------
(* run() invoked twice on one tester: await tester.run(); await tester.run() *)

\* the calls of run() the caller makes on the tester
RunCalls == <<"run", "run">>

\* the tester is constructed and the first call of run() begins; queue
\* holds the calls still to make
RepeatInit ==
    /\ pc = "init"
    /\ entry = "runTwice"
    /\ \E now \in 0..MaxClock :
         /\ clock = now
         /\ tester = NewTester("chromium", now)
    /\ input = EmptyMap
    /\ summary = NoCompletion
    /\ html = NoCompletion
    /\ queue = Tail(RunCalls)
    /\ session = NoSession
    /\ found = <<>>
    /\ dirs = {}
    /\ files = EmptyMap
    /\ report = NoCompletion
    /\ outcomes = EmptyMap
    /\ error = ""
    /\ stderr = <<>>
    /\ exitCode = 0
    /\ steps = <<>>
    /\ failedAt = [b \in {"chromium"} |-> "none"]

\* run() returns its report and the caller calls run() again
runAgain ==
    /\ pc = "print"
    /\ entry = "runTwice"
    /\ queue # <<>>
    /\ queue' = Tail(queue)
    /\ steps' = <<>>
    /\ pc' = "init"
    /\ UNCHANGED <<tester, input, summary, html, clock, entry, session, found,
                   dirs, files, report, outcomes, error, stderr, exitCode,
                   failedAt>>

\* the last call of run() returns
repeatDone ==
    /\ pc = "print"
    /\ entry = "runTwice"
    /\ queue = <<>>
    /\ pc' = "returned"
    /\ UNCHANGED <<tester, input, summary, html, clock, orch>>

RepeatNext ==
    \/ init \/ launchBrowser \/ newContext \/ newPage \/ goto \/ screenshot
    \/ injectAxe \/ getViolations \/ evaluate \/ closeAndReturn \/ catchAudit
    \/ generateJSONReport \/ generateHTMLReport \/ catchRun
    \/ runAgain \/ repeatDone

SpecRepeat == RepeatInit /\ [][RepeatNext]_vars

\* C15: each of report.json and report.html is written exactly once, into
\* the run's own timestamped directory, and no report file once written is
\* written again, also when run() is invoked more than once on the tester.
C15_WrittenOnce ==
    \A path \in DOMAIN files :
        path[2] \in {"report.json", "report.html"} => files[path].writes = 1

====
